---- MODULE Spec2Model ----
(***************************************************************************)
(* State-machine model of app/utils/data_analyzer.py: one DataAnalyzer     *)
(* instance, its stored artifacts, and its six public operations           *)
(* (load_data, perform_pca, find_optimal_clusters, perform_clustering,     *)
(* create_biplot, export_analysis_results).                                *)
(*                                                                         *)
(* A request layer (app/routers/analysis.py) constructs one analyzer per     *)
(* request and calls the operations on it in the handler's order.           *)
(*                                                                         *)
(* Numerical content of the library calls (StandardScaler, PCA, KMeans,    *)
(* silhouette_score) is abstracted to what the operations' control flow    *)
(* depends on: shapes, row identity, the conditions under which the        *)
(* library raises, and the attributes assigned before it raises.           *)
(***************************************************************************)
EXTENDS Integers, Sequences, FiniteSets, TLC

\* ------------------------------------------------------------------ bounds
MaxRecords == 2      \* records per load_data call in LoaderSpec
MaxRequested == 2    \* requested feature names per load_data call in LoaderSpec
MaxRows == 3         \* records per cohort in the pipeline specification
MaxInertia == 1      \* inertia values are drawn from 0..MaxInertia
MaxCalls == 5        \* operation calls per analysis session
MaxSelectorRows == 5 \* records per cohort in the selector specification
VarianceUnits == 4   \* explained-variance ratios are counted in 1/VarianceUnits
MaxPaletteRows == 11 \* records per cohort in the biplot specification

\* ------------------------------------------------------ python-like values
\* Optional values: Python None is the empty tuple, a present value x is <<x>>.
None == <<>>
Some(x) == <<x>>
Val(o) == o[1]

Min(a, b) == IF a <= b THEN a ELSE b

\* Floating-point values: a number or NaN. NaN equals nothing, itself included,
\* is in no order with anything, and absorbs addition.
FloatNaN == <<>>
Float(v) == <<v>>
IsNaN(x) == x = FloatNaN
FloatEq(x, y) == ~IsNaN(x) /\ ~IsNaN(y) /\ Val(x) = Val(y)
FloatLeq(x, y) == ~IsNaN(x) /\ ~IsNaN(y) /\ Val(x) <= Val(y)
FloatAdd(x, y) == IF IsNaN(x) \/ IsNaN(y) THEN FloatNaN ELSE Float(Val(x) + Val(y))

Range(s) == {s[i] : i \in 1..Len(s)}

\* The sub-sequence of s at the (ascending) positions in keep.
RECURSIVE Pick(_, _, _)
Pick(s, keep, i) ==
    IF i > Len(s) THEN <<>>
    ELSE (IF i \in keep THEN <<s[i]>> ELSE <<>>) \o Pick(s, keep, i + 1)

\* --------------------------------------------------------------- input data
Features == {"A", "B"}            \* feature names that occur in grade maps
Names == Features \cup {"Z"}      \* names a caller may request
Numeric == {"10", "12", "14", "15"}  \* numeric grade values
Text == "abc"                     \* a value that is not numeric-convertible
Null == "null"                    \* JSON null / Python None stored under a key
NaN == "NaN"                      \* pandas' missing-value marker

\* What a grade map may hold under a key: a number, a text, a null.
GradeValues == {"10", Text, Null}

\* A grade map: feature name -> value, possibly partial.
GradeMaps == UNION {[S -> GradeValues] : S \in SUBSET Features}

\* Row identifiers; record i of a list carries the i-th identifier.
Matricules == <<"m1", "m2", "m3", "m4", "m5", "m6",
                "m7", "m8", "m9", "m10", "m11", "m12">>

Record(i, g) == [matricule |-> Matricules[i], grades |-> g]

\* All record lists of exactly n records.
RecordLists(n) == {[i \in 1..n |-> Record(i, gs[i])] : gs \in [1..n -> GradeMaps]}

StudentLists == UNION {RecordLists(n) : n \in 0..MaxRecords}

\* All requested-name lists of at most MaxRequested names (duplicates allowed).
ModuleLists == UNION {[1..n -> Names] : n \in 0..MaxRequested}

\* ------------------------------------------------------------------- state
VARIABLES
    data,               \* self.data: None or the feature matrix (list of rows)
    selected_modules,   \* self.selected_modules: None or the resolved names
    matricules,         \* self.matricules: None until load_data first assigns it
    scaler,             \* self.scaler: None while unfitted, else the matrix it was fit on
    pca,                \* self.pca: None or [n_components, fitted]
    pca_data,           \* self.pca_data: None or the reduced matrix [ids, rows, cols]
    explained_variance, \* self.explained_variance: None or one ratio per component
    loadings,           \* self.loadings: None or [index, cols]
    kmeans,             \* self.kmeans: None or [n_clusters, fitted]
    cluster_labels,     \* self.cluster_labels: None or one label per reduced row
    fits,               \* every KMeans fit made so far: call site, parameters, outcome
    server,             \* the request layer: requests in progress and their analyzers
    call,               \* the last operation called and its arguments
    result,             \* the dictionary that call returned
    hist                \* history of the results returned so far

fields == <<data, selected_modules, matricules, scaler, pca, pca_data,
            explained_variance, loadings, kmeans, cluster_labels>>

vars == <<data, selected_modules, matricules, scaler, pca, pca_data,
          explained_variance, loadings, kmeans, cluster_labels, fits, server,
          call, result, hist>>

\* One more operation call has returned.
Tick(h) == [h EXCEPT !.calls = @ + 1]

\* --------------------------------------------------------- result records
\* The except-branch dictionary every operation returns on an exception.
Failure_KeepsPayload(msg) == [success |-> FALSE, error |-> msg, partial |-> TRUE]

Failure(msg) == [success |-> FALSE, error |-> msg]

\* ---------------------------------------------------------------- load_data
\* pd.DataFrame(students_data).columns: the keys of the record dictionaries.
DfColumns(students) == IF students = <<>> THEN {} ELSE {"matricule", "grades"}

\* pd.json_normalize(df['grades']).columns: every key of some record's grade map.
GradeColumns(students) == UNION {DOMAIN students[i].grades : i \in 1..Len(students)}

\* The columns the requested names are resolved against.
SchemaColumns(students) ==
    IF "grades" \in DfColumns(students) THEN GradeColumns(students)
    ELSE DfColumns(students)

\* [mod for mod in selected_modules if mod in columns]
AvailableModules_Sorted(students, selected) ==
    LET present == {m \in Range(selected) : m \in SchemaColumns(students)}
    IN  SelectSeq(<<"A", "B", "Z">>, LAMBDA m : m \in present)

AvailableModules(students, selected) ==
    SelectSeq(selected, LAMBDA m : m \in SchemaColumns(students))

\* One cell of the normalized grades frame: an absent key and a null are both NA.
Cell(rec, mod) ==
    IF mod \in DOMAIN rec.grades /\ rec.grades[mod] # Null THEN rec.grades[mod] ELSE NaN

\* grades_df[available_modules], row i.
GradesRow(rec, avail) == [j \in 1..Len(avail) |-> Cell(rec, avail[j])]

\* grades_df.dropna().index: the positions of the rows with no NA cell.
DropNaIndex(students, avail) ==
    {i \in 1..Len(students) :
        \A j \in 1..Len(avail) : GradesRow(students[i], avail)[j] # NaN}

\* The exception load_data raises inside its try block, if any.
LoadError_RejectsDroppedRows(students, selected) ==
    LET avail == AvailableModules(students, selected) IN
    IF avail = <<>>
    THEN Some("None of the selected modules are available in the data")
    ELSE IF DropNaIndex(students, avail) # 1..Len(students)
    THEN Some("No valid data after removing missing values")
    ELSE None

LoadError(students, selected) ==
    LET avail == AvailableModules(students, selected) IN
    IF avail = <<>>
    THEN Some("None of the selected modules are available in the data")
    ELSE IF DropNaIndex(students, avail) = {}
    THEN Some("No valid data after removing missing values")
    ELSE None

\* df['matricule'].iloc[grades_df.index].tolist()
KeptMatricules(students, kept) ==
    Pick([i \in 1..Len(students) |-> students[i].matricule], kept, 1)

KeptRows(students, avail, kept) ==
    Pick([i \in 1..Len(students) |-> GradesRow(students[i], avail)], kept, 1)

load_data(students, selected) ==
    LET avail == AvailableModules(students, selected)
        kept == DropNaIndex(students, avail)
        err == LoadError(students, selected)
        res == IF err # None THEN Failure(Val(err))
               ELSE [success |-> TRUE,
                     data_shape |-> <<Cardinality(kept), Len(avail)>>,
                     available_modules |-> avail,
                     sample_count |-> Cardinality(kept)]
    IN  /\ call' = [op |-> "load_data", students |-> students, selected |-> selected]
        /\ result' = res
        /\ IF err # None
           THEN UNCHANGED <<data, selected_modules, matricules>>
           ELSE /\ data' = Some(KeptRows(students, avail, kept))
                /\ selected_modules' = Some(avail)
                /\ matricules' = Some(KeptMatricules(students, kept))
        /\ hist' = [Tick(hist) EXCEPT !.loaded = @ \/ res.success,
                                !.reduced_since_load = @ /\ ~res.success,
                                !.clustered_since_load = @ /\ ~res.success]
        /\ UNCHANGED <<scaler, pca, pca_data, explained_variance, loadings,
                       kmeans, cluster_labels, fits>>

\* ------------------------------------------------------------ request layer
\* The field variables hold the attributes of one DataAnalyzer object, the one
\* the next call addresses (server.active); server.objects holds every object
\* constructed by a request handler, server.ref the object each handler's local
\* variable "analyzer" is bound to.
Handlers == {"alone", "first", "second"}

\* The attributes DataAnalyzer.__init__ assigns.
FreshAnalyzer ==
    [data |-> None, selected_modules |-> None, matricules |-> None, scaler |-> None,
     pca |-> None, pca_data |-> None, explained_variance |-> None, loadings |-> None,
     kmeans |-> None, cluster_labels |-> None]

\* The attributes of the object the field variables hold.
ActiveAnalyzer ==
    [data |-> data, selected_modules |-> selected_modules, matricules |-> matricules,
     scaler |-> scaler, pca |-> pca, pca_data |-> pca_data,
     explained_variance |-> explained_variance, loadings |-> loadings,
     kmeans |-> kmeans, cluster_labels |-> cluster_labels]

\* The field variables become the attributes of object obj.
Address(obj) ==
    /\ data' = obj.data
    /\ selected_modules' = obj.selected_modules
    /\ matricules' = obj.matricules
    /\ scaler' = obj.scaler
    /\ pca' = obj.pca
    /\ pca_data' = obj.pca_data
    /\ explained_variance' = obj.explained_variance
    /\ loadings' = obj.loadings
    /\ kmeans' = obj.kmeans
    /\ cluster_labels' = obj.cluster_labels

\* server.objects once the attributes in the field variables are written back.
WrittenBack ==
    IF server.active = 0 THEN server.objects
    ELSE [server.objects EXCEPT ![server.active] = ActiveAnalyzer]

NoServer ==
    [objects |-> <<>>,
     active |-> 0,
     ref |-> [h \in Handlers |-> 0],
     pc |-> [h \in Handlers |-> "new"],
     input |-> [h \in Handlers |-> None],
     responses |-> [h \in Handlers |-> <<>>],
     http |-> [pc |-> "new", request |-> None, n_clusters |-> None,
               stages |-> <<>>, status |-> None]]

\* -------------------------------------------------------------------- init
\* DataAnalyzer.__init__
Init ==
    /\ data = None
    /\ selected_modules = None
    /\ matricules = None
    /\ scaler = None
    /\ pca = None
    /\ pca_data = None
    /\ explained_variance = None
    /\ loadings = None
    /\ kmeans = None
    /\ cluster_labels = None
    /\ fits = {}
    /\ server = NoServer
    /\ call = [op |-> "init"]
    /\ result = [success |-> TRUE]
    /\ hist = [calls |-> 0, loaded |-> FALSE, reduced |-> FALSE, clustered |-> FALSE,
               reduced_since_load |-> FALSE, clustered_since_load |-> FALSE,
               labelled |-> None]

\* -------------------------------------------------------------- perform_pca
\* A row the scaler cannot convert to float makes StandardScaler raise.
HasText(X) == \E i \in 1..Len(X) : \E j \in 1..Len(X[i]) : X[i][j] \notin Numeric

\* Rows of the projection, up to equality: row i is named by the first row equal to it.
Points(X) == [i \in 1..Len(X) |-> CHOOSE j \in 1..i : X[j] = X[i] /\ \A h \in 1..(j - 1) : X[h] # X[i]]

\* DataFrame.to_dict('index') raises when the index (the resolved names) repeats a name.
HasDuplicates(modules) == Cardinality(Range(modules)) < Len(modules)

\* n_components when the caller passes None.
DefaultComponents_FeaturesOnly(modules, X) == Len(modules)

DefaultComponents(modules, X) == Min(Len(modules), Len(X))

\* PCA.fit_transform raises unless 0 <= n_components <= min(n_samples, n_features).
PCARaises(n, X) == n < 0 \/ n > Min(Len(X), Len(X[1]))

\* The number of directions the standardized rows vary in.
Column(X, j) == [i \in 1..Len(X) |-> X[i][j]]

Rank(X) ==
    Min(Cardinality(Range(X)) - 1,
        Cardinality({Column(X, j) : j \in {h \in 1..Len(X[1]) :
                                                Cardinality(Range(Column(X, h))) > 1}}))

\* pca.explained_variance_ratio_: each component's variance over the total
\* variance, in descending order. A single row, or rows that are all equal,
\* have no variance and every ratio is 0/0 = NaN. Otherwise ratios are counted
\* in 1/VarianceUnits: each direction of variation after the first holds one
\* unit, the first holds the rest, the remaining components hold none.
Spectrum(X) ==
    [i \in 1..Min(Len(X), Len(X[1])) |->
        IF Cardinality(Range(X)) = 1 THEN FloatNaN
        ELSE IF i = 1 THEN Float(VarianceUnits - (Rank(X) - 1))
        ELSE IF i <= Rank(X) THEN Float(1)
        ELSE Float(0)]

ExplainedVarianceRatio(n, X) == SubSeq(Spectrum(X), 1, n)

\* np.cumsum: entry i is entry i - 1 plus element i.
CumSum_Identity(seq) == seq

RECURSIVE CumSum(_)
CumSum(seq) ==
    IF Len(seq) <= 1 THEN seq
    ELSE LET init == CumSum(SubSeq(seq, 1, Len(seq) - 1))
         IN  Append(init, FloatAdd(init[Len(init)], seq[Len(seq)]))

PcaSuccess(n, X, modules) ==
    [success |-> TRUE,
     explained_variance |-> ExplainedVarianceRatio(n, X),
     cumulative_variance |-> CumSum(ExplainedVarianceRatio(n, X)),
     loadings |-> [index |-> modules, cols |-> n],
     n_components |-> n,
     variance_plot |-> "figure",
     cumulative_plot |-> "figure",
     pca_data_shape |-> <<Len(X), n>>]

perform_pca(n_components) ==
    /\ call' = [op |-> "perform_pca", n_components |-> n_components]
    /\ UNCHANGED fits
    /\ IF data = None
       THEN /\ result' = Failure("No data loaded. Call load_data first.")
            /\ hist' = Tick(hist)
            /\ UNCHANGED fields
       ELSE LET X == Val(data)
                n == IF n_components = None
                     THEN DefaultComponents(Val(selected_modules), X)
                     ELSE Val(n_components)
            IN  IF HasText(X)
                THEN \* scaler.fit_transform resets the scaler, then raises
                     /\ scaler' = None
                     /\ result' = Failure("could not convert string to float")
                     /\ hist' = Tick(hist)
                     /\ UNCHANGED <<data, selected_modules, matricules, pca, pca_data,
                                    explained_variance, loadings, kmeans, cluster_labels>>
                ELSE IF PCARaises(n, X)
                THEN \* self.pca is already replaced when fit_transform raises
                     /\ scaler' = Some(X)
                     /\ pca' = Some([n_components |-> n, fitted |-> FALSE])
                     /\ result' = Failure("n_components must be between 0 and min(n_samples, n_features)")
                     /\ hist' = Tick(hist)
                     /\ UNCHANGED <<data, selected_modules, matricules, pca_data,
                                    explained_variance, loadings, kmeans, cluster_labels>>
                ELSE \* every artifact is stored before the result dictionary is built
                     /\ scaler' = Some(X)
                     /\ pca' = Some([n_components |-> n, fitted |-> TRUE])
                     /\ pca_data' = Some([ids |-> Val(matricules), pts |-> Points(X), cols |-> n])
                     /\ explained_variance' = Some(ExplainedVarianceRatio(n, X))
                     /\ loadings' = Some([index |-> Val(selected_modules), cols |-> n])
                     /\ UNCHANGED <<data, selected_modules, matricules, kmeans, cluster_labels>>
                     /\ IF HasDuplicates(Val(selected_modules))
                        THEN \* self.loadings.to_dict('index') at line 120
                             /\ result' = Failure("DataFrame index must be unique for orient='index'.")
                             /\ hist' = Tick(hist)
                        ELSE /\ result' = PcaSuccess(n, X, Val(selected_modules))
                             /\ hist' = [Tick(hist) EXCEPT !.reduced = TRUE,
                                                           !.reduced_since_load = TRUE]

\* ---------------------------------------------------------- KMeans, silhouette
Rows(reduced) == Len(reduced.ids)

Distinct(reduced) == Cardinality(Range(reduced.pts))

\* KMeans(n_clusters=k).fit raises on k < 1, on a matrix without columns, and on
\* fewer rows than clusters.
KMeansRaises(k, reduced) == k < 1 \/ reduced.cols = 0 \/ k > Rows(reduced)

\* The label vectors KMeans can return: equal rows share a label, and
\* min(k, number of distinct rows) labels of 0..k-1 are in use.
Labelings(k, reduced) ==
    {l \in [1..Rows(reduced) -> 0..(k - 1)] :
        /\ \A i, j \in 1..Rows(reduced) : reduced.pts[i] = reduced.pts[j] => l[i] = l[j]
        /\ Cardinality(Range(l)) = Min(k, Distinct(reduced))}

\* A fitted estimator is a function of its parameters and its input: a fit whose
\* parameters and matrix were fitted before returns the inertia, and the labels
\* where they were read, of that fit.
SameInertia(key, inertia) ==
    \A f \in fits : f.key = key => f.inertia = inertia

SameLabels(key, labels) ==
    \A f \in fits : (f.key = key /\ f.labels # None) => f.labels = Some(labels)

\* KMeans(n_clusters=k, random_state=42, n_init=10) fitted on self.pca_data, as
\* find_optimal_clusters and as perform_clustering construct it.
SelectorKMeans(k, reduced) ==
    [n_clusters |-> k, random_state |-> 42, n_init |-> 10, X |-> reduced]

ClustererKMeans_OtherSeed(k, reduced) ==
    [n_clusters |-> k, random_state |-> 0, n_init |-> 10, X |-> reduced]

ClustererKMeans(k, reduced) ==
    [n_clusters |-> k, random_state |-> 42, n_init |-> 10, X |-> reduced]

\* silhouette_score raises unless 2 <= number of labels <= n_samples - 1.
SilhouetteRaises(labels) ==
    ~(2 <= Cardinality(Range(labels)) /\ Cardinality(Range(labels)) <= Len(labels) - 1)

\* ---------------------------------------------------------- _find_elbow_point
Abs(x) == IF x < 0 THEN -x ELSE x

\* np.diff
Diff(s) == [i \in 1..(Len(s) - 1) |-> s[i + 1] - s[i]]

\* np.argmax: the first (0-based) position of the maximum.
ArgMax_LastOnTies(s) == (CHOOSE i \in 1..Len(s) :
                            /\ \A j \in 1..Len(s) : s[j] <= s[i]
                            /\ \A j \in (i + 1)..Len(s) : s[j] < s[i]) - 1

ArgMax(s) == (CHOOSE i \in 1..Len(s) :
                 /\ \A j \in 1..Len(s) : s[j] <= s[i]
                 /\ \A j \in 1..(i - 1) : s[j] < s[i]) - 1

\* Python list indexing with a 0-based index.
At(s, idx) == s[idx + 1]

\* elbow_idx = np.argmax(diff2) + 2
ElbowIndex_NoShift(diff2) == ArgMax(diff2)

ElbowIndex(diff2) == ArgMax(diff2) + 2

\* The return statement of _find_elbow_point that produces the result.
ElbowRule(k_range, inertias) ==
    IF Len(inertias) < 3 THEN "short"
    ELSE LET diffs == Diff(inertias)
             diff2 == Diff(diffs)
         IN  IF Len(diff2) > 0 /\ ElbowIndex(diff2) < Len(k_range) THEN "curvature"
             ELSE IF \E i \in 1..(Len(diffs) - 1) :
                        Abs(At(diffs, i)) * 10 < Abs(At(diffs, i - 1)) * 7
             THEN "slowdown"
             ELSE "default"

find_elbow_point(k_range, inertias) ==
    IF Len(inertias) < 3
    THEN IF k_range # <<>> THEN At(k_range, 0) ELSE 2
    ELSE LET diffs == Diff(inertias)
             diff2 == Diff(diffs)
             elbow_idx == ElbowIndex(diff2)
             slow == {i \in 1..(Len(diffs) - 1) :
                         Abs(At(diffs, i)) * 10 < Abs(At(diffs, i - 1)) * 7}
         IN  IF Len(diff2) > 0 /\ elbow_idx < Len(k_range)
             THEN At(k_range, elbow_idx)
             ELSE IF slow # {}
             THEN At(k_range, (CHOOSE i \in slow : \A j \in slow : i <= j) + 1)
             ELSE At(k_range, Min(3, Len(k_range) - 1))

\* ---------------------------------------------------- find_optimal_clusters
\* list(range(1, min(max_k + 1, len(self.pca_data))))
KRange_ThroughRowCount(max_k, reduced) ==
    [i \in 1..Min(max_k, Rows(reduced)) |-> i]

KRange_NeverEmpty(max_k, reduced) ==
    [i \in 1..(IF Min(max_k + 1, Rows(reduced)) < 2 THEN 1
               ELSE Min(max_k + 1, Rows(reduced)) - 1) |-> i]

KRange(max_k, reduced) ==
    [i \in 1..(Min(max_k + 1, Rows(reduced)) - 1) |-> i]

InertiaCurves(n) == [1..n -> 0..MaxInertia]

\* The exception raised while the candidates are fitted and scored, if any.
ElbowLoopRaises(k_range, reduced) ==
    \E i \in 1..Len(k_range) :
        \/ KMeansRaises(k_range[i], reduced)
        \/ k_range[i] > 1 /\ Min(k_range[i], Distinct(reduced)) < 2

\* The silhouette entry appended for candidate k: the metric for k > 1, else 0.
SilhouetteEntry_AlwaysMetric(k) == "score"

SilhouetteEntry(k) == IF k > 1 THEN "score" ELSE "0"

\* _create_elbow_plot: k_range.index(optimal_k) raises when optimal_k is not in k_range.
ElbowPlotRaises_Never(k_range, optimal_k) == FALSE

ElbowPlotRaises(k_range, optimal_k) == optimal_k \notin Range(k_range)

\* self.kmeans after the candidate loop: line 146 binds each candidate model to
\* a local name, so the attribute keeps its value.
KMeansAfterSelector_Stored(k_range) ==
    IF k_range = <<>> THEN kmeans
    ELSE Some([n_clusters |-> k_range[Len(k_range)], fitted |-> TRUE])

KMeansAfterSelector(k_range) == kmeans

find_optimal_clusters(max_k) ==
    /\ call' = [op |-> "find_optimal_clusters", max_k |-> max_k]
    /\ hist' = Tick(hist)
    /\ UNCHANGED <<data, selected_modules, matricules, scaler, pca, pca_data,
                   explained_variance, loadings, cluster_labels>>
    /\ kmeans' = IF pca_data = None THEN kmeans
                 ELSE KMeansAfterSelector(KRange(max_k, Val(pca_data)))
    /\ IF pca_data = None
       THEN /\ result' = Failure("PCA not performed. Call perform_pca first.")
            /\ UNCHANGED fits
       ELSE LET reduced == Val(pca_data)
                k_range == KRange(max_k, reduced)
            IN  IF ElbowLoopRaises(k_range, reduced)
                THEN \* the candidates fitted before the exception are not read
                     /\ result' = Failure("clustering candidate failed")
                     /\ UNCHANGED fits
                ELSE \E inertias \in InertiaCurves(Len(k_range)) :
                        LET optimal_k == find_elbow_point(k_range, inertias)
                            fitted == {[site |-> "find_optimal_clusters",
                                        key |-> SelectorKMeans(k_range[i], reduced),
                                        labels |-> None,
                                        inertia |-> inertias[i]] : i \in 1..Len(k_range)}
                        IN  /\ \A f \in fitted : SameInertia(f.key, f.inertia)
                            /\ fits' = fits \cup fitted
                            /\ IF ElbowPlotRaises(k_range, optimal_k)
                               THEN result' = Failure("optimal_k is not in list")
                               ELSE result' =
                                      [success |-> TRUE,
                                       k_range |-> k_range,
                                       inertias |-> inertias,
                                       silhouette_scores |->
                                           [i \in 1..Len(k_range) |->
                                               SilhouetteEntry(k_range[i])],
                                       optimal_k |-> optimal_k,
                                       elbow_plot |-> "figure"]

\* --------------------------------------------- _calculate_cluster_statistics
\* self.data.iloc[mask] raises on a mask whose length is not the row count, and
\* the mean of a cluster holding a non-numeric cell raises (pandas 2 semantics).
StatisticsRaises(n_clusters, labels) ==
    \/ n_clusters > 0 /\ Len(Val(data)) # Len(labels)
    \/ \E i \in 1..Len(labels) :
          /\ labels[i] < n_clusters
          /\ i <= Len(Val(data))
          /\ HasText(<<Val(data)[i]>>)

ClusterSize(labels, c) == Cardinality({i \in 1..Len(labels) : labels[i] = c})

ClusterStatistics(n_clusters, labels) ==
    [c \in 0..(n_clusters - 1) |->
        [size |-> ClusterSize(labels, c),
         students |-> Pick(Val(matricules), {i \in 1..Len(labels) : labels[i] = c}, 1)]]

\* -------------------------------------------------------- perform_clustering
\* pd.DataFrame({'matricule': ..., 'cluster': ...}) raises on columns of unequal length.
AssignmentsRaise(labels) == Len(Val(matricules)) # Len(labels)

\* cluster_assignments.to_dict('records'): row i pairs identifier i with label i.
Assignments_Reversed(labels) ==
    [i \in 1..Len(labels) |->
        [matricule |-> Val(matricules)[i], cluster |-> labels[Len(labels) + 1 - i]]]

Assignments(labels) ==
    [i \in 1..Len(labels) |-> [matricule |-> Val(matricules)[i], cluster |-> labels[i]]]

\* The exception raised after the labels are stored, if any.
AfterLabelsRaises(n_clusters, labels) ==
    \/ StatisticsRaises(n_clusters, labels)
    \/ AssignmentsRaise(labels)
    \/ SilhouetteRaises(labels)

\* What fit_predict reads when the labels are computed, and what a figure or
\* an export later shows beside them.
LabelledOn ==
    [pca_data |-> pca_data, loadings |-> loadings, selected_modules |-> selected_modules]

perform_clustering(n_clusters) ==
    /\ call' = [op |-> "perform_clustering", n_clusters |-> n_clusters]
    /\ UNCHANGED <<data, selected_modules, matricules, scaler, pca, pca_data,
                   explained_variance, loadings>>
    /\ IF pca_data = None
       THEN /\ result' = Failure("PCA not performed. Call perform_pca first.")
            /\ hist' = Tick(hist)
            /\ UNCHANGED <<kmeans, cluster_labels, fits>>
       ELSE IF KMeansRaises(n_clusters, Val(pca_data))
       THEN \* self.kmeans is already replaced when fit_predict raises
            /\ kmeans' = Some([n_clusters |-> n_clusters, fitted |-> FALSE])
            /\ result' = Failure("KMeans rejected n_clusters or the matrix")
            /\ hist' = Tick(hist)
            /\ UNCHANGED <<cluster_labels, fits>>
       ELSE \E labels \in Labelings(n_clusters, Val(pca_data)), inertia \in 0..MaxInertia :
            /\ SameLabels(ClustererKMeans(n_clusters, Val(pca_data)), labels)
            /\ SameInertia(ClustererKMeans(n_clusters, Val(pca_data)), inertia)
            /\ fits' = fits \cup {[site |-> "perform_clustering",
                                    key |-> ClustererKMeans(n_clusters, Val(pca_data)),
                                    labels |-> Some(labels),
                                    inertia |-> inertia]}
            /\ kmeans' = Some([n_clusters |-> n_clusters, fitted |-> TRUE])
            /\ cluster_labels' = Some(labels)
            /\ IF AfterLabelsRaises(n_clusters, labels)
               THEN /\ result' = Failure("statistics, assignments or silhouette failed")
                    /\ hist' = [Tick(hist) EXCEPT !.labelled = Some(LabelledOn)]
               ELSE /\ result' = [success |-> TRUE,
                                  cluster_assignments |-> Assignments(labels),
                                  cluster_statistics |-> ClusterStatistics(n_clusters, labels),
                                  n_clusters |-> n_clusters,
                                  silhouette_score |-> "score"]
                    /\ hist' = [Tick(hist) EXCEPT !.clustered = TRUE,
                                            !.clustered_since_load = hist.reduced_since_load,
                                            !.labelled = Some(LabelledOn)]

\* ------------------------------------------------------------- create_biplot
SetOneColors == 9    \* len(px.colors.qualitative.Set1)

\* Whether building the figure raises: more clusters than colours, a label mask
\* of another length than the reduced matrix, a negative index below -cols, an
\* identifier list shorter than the labels, more resolved names than loading rows.
BiplotRaises(pc1_idx, pc2_idx) ==
    LET reduced == Val(pca_data)
        labels == Val(cluster_labels)
        bad(idx) == idx < 0 - reduced.cols
    IN  \/ Cardinality(Range(labels)) > SetOneColors
        \/ Len(labels) # Rows(reduced)
        \/ bad(pc1_idx) \/ bad(pc2_idx)
        \/ Len(Val(matricules)) < Len(labels)
        \/ Len(Val(selected_modules)) > Len(Val(loadings).index)

\* pc1_idx = pc1 - 1, pc2_idx = pc2 - 1: the 0-based column of a 1-based component.
ComponentIndex_OffByOne(pc) == pc - 2

ComponentIndex(pc) == pc - 1

\* The 0-based position a numpy or Python index reads: a negative index counts
\* from the end.
Position(idx, n) == IF idx < 0 THEN idx + n ELSE idx

\* The figure: the reduced-matrix columns on the two axes, one scatter trace per
\* distinct label with the identifiers of the rows carrying it, and one loading
\* vector per resolved name taken from the same two columns.
BiplotFigure(pc1_idx, pc2_idx) ==
    LET labels == Val(cluster_labels)
        cols == Val(pca_data).cols
    IN  [x |-> Position(pc1_idx, cols),
         y |-> Position(pc2_idx, cols),
         groups |-> [c \in Range(labels) |->
                        Pick(Val(matricules), {j \in 1..Len(labels) : labels[j] = c}, 1)],
         vectors |-> [i \in 1..Len(Val(selected_modules)) |->
                         [module |-> Val(selected_modules)[i],
                          x |-> Position(pc1_idx, Val(loadings).cols),
                          y |-> Position(pc2_idx, Val(loadings).cols)]]]

create_biplot(pc1, pc2) ==
    /\ call' = [op |-> "create_biplot", pc1 |-> pc1, pc2 |-> pc2]
    /\ hist' = Tick(hist)
    /\ UNCHANGED <<fields, fits>>
    /\ IF pca_data = None \/ cluster_labels = None
       THEN result' = Failure("PCA and clustering must be performed first.")
       ELSE IF \/ ComponentIndex(pc1) >= Val(pca_data).cols
               \/ ComponentIndex(pc2) >= Val(pca_data).cols
       THEN result' = Failure("Selected principal components exceed available components.")
       ELSE IF BiplotRaises(ComponentIndex(pc1), ComponentIndex(pc2))
       THEN result' = Failure("index out of range")
       ELSE result' = [success |-> TRUE,
                       biplot |-> BiplotFigure(ComponentIndex(pc1), ComponentIndex(pc2)),
                       pc1 |-> pc1,
                       pc2 |-> pc2,
                       explained_variance_pc1 |->
                           At(Val(explained_variance),
                              Position(ComponentIndex(pc1), Len(Val(explained_variance)))),
                       explained_variance_pc2 |->
                           At(Val(explained_variance),
                              Position(ComponentIndex(pc2), Len(Val(explained_variance))))]

\* --------------------------------------------------- export_analysis_results
ExportRaises ==
    LET labels == Val(cluster_labels) IN
    \/ ~Val(pca).fitted
    \/ HasDuplicates(Val(loadings).index)
    \/ AssignmentsRaise(labels)
    \/ StatisticsRaises(Cardinality(Range(labels)), labels)

export_analysis_results ==
    /\ call' = [op |-> "export_analysis_results"]
    /\ hist' = Tick(hist)
    /\ UNCHANGED <<fields, fits>>
    /\ IF pca = None \/ cluster_labels = None
       THEN result' = Failure("Complete analysis not performed.")
       ELSE IF ExportRaises
       THEN result' = Failure("export failed")
       ELSE LET labels == Val(cluster_labels) IN
            result' =
              [success |-> TRUE,
               results |->
                 [metadata |-> [selected_modules |-> Val(selected_modules),
                                n_components |-> Val(pca).n_components,
                                n_clusters |-> Cardinality(Range(labels)),
                                sample_size |-> Len(Val(data))],
                  pca_results |-> [explained_variance |-> Val(explained_variance),
                                   cumulative_variance |-> CumSum(Val(explained_variance)),
                                   loadings |-> Val(loadings)],
                  cluster_results |->
                    [assignments |-> Assignments(labels),
                     statistics |-> ClusterStatistics(Cardinality(Range(labels)), labels)]]]

\* ------------------------------------------------------ pipeline inputs
\* Cohorts the request layer hands to load_data. A clean cohort has n students
\* with complete numeric grades, pairwise distinct for the first four students.
CleanGrades(i) ==
    [m \in Features |->
        IF m = "A" THEN (IF i % 2 = 1 THEN "10" ELSE "15")
        ELSE (IF ((i - 1) \div 2) % 2 = 0 THEN "10" ELSE "15")]

\* Variants of the largest cohort: the first student lacks B, the last student
\* has a non-numeric A, or all students have the same grades.
Variants == {"gap", "text", "same"}

VariantGrades(n, variant, i) ==
    IF variant = "same" THEN CleanGrades(1)
    ELSE IF variant = "gap" /\ i = 1 THEN [m \in {"A"} |-> "10"]
    ELSE IF variant = "text" /\ i = n THEN [CleanGrades(i) EXCEPT !["A"] = Text]
    ELSE CleanGrades(i)

Cohorts ==
    {[i \in 1..n |-> Record(i, CleanGrades(i))] : n \in 1..MaxRows}
    \cup {[i \in 1..MaxRows |-> Record(i, VariantGrades(MaxRows, v, i))] : v \in Variants}

\* The load_data calls of the pipeline: every cohort with both features requested,
\* and the largest clean cohort with a repeated name and with an unknown name.
CohortLoads ==
    {[students |-> c, selected |-> <<"A", "B">>] : c \in Cohorts}
    \cup {[students |-> [i \in 1..MaxRows |-> Record(i, CleanGrades(i))], selected |-> r] :
             r \in {<<"A", "A">>, <<"Z">>}}

\* Component counts and 1-based component indices a caller may pass: from below
\* the valid range to one above the largest possible count.
MaxComponents == Cardinality(Features)

ComponentArgs == {None} \cup {Some(n) : n \in (0 - 1)..(MaxComponents + 1)}

ComponentIndexes == 0..(MaxComponents + 1)

\* ---------------------------------------------------------- specification
Next ==
    /\ hist.calls < MaxCalls
    /\ UNCHANGED server
    /\ \/ \E l \in CohortLoads : load_data(l.students, l.selected)
       \/ \E n \in ComponentArgs : perform_pca(n)
       \/ \E max_k \in 0..MaxRows : find_optimal_clusters(max_k)
       \/ \E k \in 0..(MaxRows + 1) : perform_clustering(k)
       \/ \E pc1, pc2 \in ComponentIndexes : create_biplot(pc1, pc2)
       \/ export_analysis_results

Spec == Init /\ [][Next]_vars

\* ------------------------------------------------ reducer specification
\* perform_pca reads only what load_data stores: the two operations alone.
ReducerNext ==
    /\ hist.calls < MaxCalls
    /\ UNCHANGED server
    /\ \/ \E l \in CohortLoads : load_data(l.students, l.selected)
       \/ \E n \in ComponentArgs : perform_pca(n)

ReducerSpec == Init /\ [][ReducerNext]_vars

\* ------------------------------------------------ selector specification
\* load_data, perform_pca, find_optimal_clusters called once each, in this order,
\* on cohorts large enough for three and more candidates.
SelectorCohorts ==
    Cohorts \cup {[i \in 1..n |-> Record(i, CleanGrades(i))] : n \in 1..MaxSelectorRows}

SelectorNext ==
    /\ UNCHANGED server
    /\ \/ /\ call.op = "init"
          /\ \E c \in SelectorCohorts : load_data(c, <<"A", "B">>)
       \/ /\ call.op = "load_data"
          /\ \E n \in ComponentArgs : perform_pca(n)
       \/ /\ call.op = "perform_pca"
          /\ \E max_k \in (0 - 1)..MaxSelectorRows : find_optimal_clusters(max_k)
       \/ /\ call.op = "find_optimal_clusters"
          /\ result.success
          /\ perform_clustering(result.optimal_k)

SelectorSpec == Init /\ [][SelectorNext]_vars

\* ----------------------------------------------- clusterer specification
\* load_data, perform_pca, perform_clustering, create_biplot called once each, in
\* this order, on the pipeline's cohorts and on a cohort whose last student has
\* the grades of the first.
TwinCohort ==
    [i \in 1..MaxRows |-> Record(i, CleanGrades(IF i = MaxRows THEN 1 ELSE i))]

ClustererCohorts == Cohorts \cup {TwinCohort}

ClustererNext ==
    /\ UNCHANGED server
    /\ \/ /\ call.op = "init"
          /\ \E c \in ClustererCohorts : load_data(c, <<"A", "B">>)
       \/ /\ call.op = "load_data"
          /\ \E n \in ComponentArgs : perform_pca(n)
       \/ /\ call.op = "perform_pca"
          /\ \E k \in 0..(MaxRows + 1) : perform_clustering(k)
       \/ /\ call.op = "perform_clustering"
          /\ \E pc1, pc2 \in ComponentIndexes : create_biplot(pc1, pc2)

ClustererSpec == Init /\ [][ClustererNext]_vars

\* The biplot of larger cohorts: n students with pairwise distinct numeric
\* grades, clustered into k groups, then create_biplot. The state after
\* load_data, perform_pca() and a successful perform_clustering(k) is written
\* down directly, for two of the label vectors KMeans can return: labels dealt
\* round-robin, and one row per cluster with the remaining rows in the last.
GradeScale == <<"10", "12", "14", "15">>

WideGrades(i) ==
    [m \in Features |->
        IF m = "A" THEN GradeScale[((i - 1) % Len(GradeScale)) + 1]
        ELSE GradeScale[((i - 1) \div Len(GradeScale)) + 1]]

WideCohort(n) == [i \in 1..n |-> Record(i, WideGrades(i))]

PaletteLabelings(k, n) ==
    {[i \in 1..n |-> (i - 1) % k], [i \in 1..n |-> Min(i, k) - 1]}

\* The state in which perform_clustering(k) has just returned success with the
\* given labels, after load_data(students, selected) and perform_pca().
AfterClustering(students, selected, k, labels, inertia) ==
    LET avail == AvailableModules(students, selected)
        kept == DropNaIndex(students, avail)
        X == KeptRows(students, avail, kept)
        n == DefaultComponents(avail, X)
        reduced == [ids |-> KeptMatricules(students, kept), pts |-> Points(X), cols |-> n]
    IN  /\ data = Some(X)
        /\ selected_modules = Some(avail)
        /\ matricules = Some(KeptMatricules(students, kept))
        /\ scaler = Some(X)
        /\ pca = Some([n_components |-> n, fitted |-> TRUE])
        /\ pca_data = Some(reduced)
        /\ explained_variance = Some(ExplainedVarianceRatio(n, X))
        /\ loadings = Some([index |-> avail, cols |-> n])
        /\ kmeans = Some([n_clusters |-> k, fitted |-> TRUE])
        /\ cluster_labels = Some(labels)
        /\ fits = {[site |-> "perform_clustering",
                    key |-> ClustererKMeans(k, reduced),
                    labels |-> Some(labels),
                    inertia |-> inertia]}
        /\ server = NoServer
        /\ call = [op |-> "perform_clustering", n_clusters |-> k]
        /\ result = [success |-> TRUE,
                     cluster_assignments |-> Assignments(labels),
                     cluster_statistics |-> ClusterStatistics(k, labels),
                     n_clusters |-> k,
                     silhouette_score |-> "score"]
        /\ hist = [calls |-> 3, loaded |-> TRUE, reduced |-> TRUE, clustered |-> TRUE,
                   reduced_since_load |-> TRUE, clustered_since_load |-> TRUE,
                   labelled |-> Some(LabelledOn)]

PaletteInit ==
    \E n \in 3..MaxPaletteRows :
        \E k \in 2..(n - 1) :
            \E labels \in PaletteLabelings(k, n) :
                AfterClustering(WideCohort(n), <<"A", "B">>, k, labels, 0)

PaletteNext ==
    /\ UNCHANGED server
    /\ call.op = "perform_clustering"
    /\ \E pc1, pc2 \in ComponentIndexes : create_biplot(pc1, pc2)

PaletteSpec == PaletteInit /\ [][PaletteNext]_vars

\* -------------------------------------------------- server specification
\* Requests to the clustering endpoint with an explicit cluster count: the handler
\* constructs an analyzer, then calls load_data, perform_pca and
\* perform_clustering on it, and stops at the first failure result. Handler
\* "alone" runs to its end first; handlers "first" (same request as "alone") and
\* "second" (any request) then run with their calls interleaved in every order.
ServerCohorts ==
    {[i \in 1..MaxRows |-> Record(i, CleanGrades(i))],
     [i \in 1..MaxRows |-> Record(i, VariantGrades(MaxRows, "text", i))],
     TwinCohort}

ServerRequests ==
    {[students |-> c, selected |-> <<"A", "B">>, n_clusters |-> MaxRows - 1] :
        c \in ServerCohorts}

\* analyzer = DataAnalyzer(): the handler's local variable is bound to a new object.
NewAnalyzer_Shared(objects) == 1

NewAnalyzer(objects) == Len(objects) + 1

Construct(h, request) ==
    LET id == NewAnalyzer(server.objects)
        objects == IF id > Len(WrittenBack) THEN Append(WrittenBack, FreshAnalyzer)
                   ELSE [WrittenBack EXCEPT ![id] = FreshAnalyzer]
    IN  /\ server.pc[h] = "new"
        /\ h # "alone" => server.pc["alone"] = "done"
        /\ h = "first" => Some(request) = server.input["alone"]
        /\ Address(FreshAnalyzer)
        /\ server' = [server EXCEPT !.objects = objects,
                                    !.active = id,
                                    !.ref[h] = id,
                                    !.pc[h] = "load_data",
                                    !.input[h] = Some(request)]
        /\ UNCHANGED <<fits, call, result, hist>>

\* The next call is made on the object handler h holds.
Switch(h) ==
    /\ server.pc[h] \in {"load_data", "perform_pca", "perform_clustering"}
    /\ server.ref[h] # server.active
    /\ Address(WrittenBack[server.ref[h]])
    /\ server' = [server EXCEPT !.objects = WrittenBack, !.active = server.ref[h]]
    /\ UNCHANGED <<fits, call, result, hist>>

\* The stage a handler goes to after a result: on failure it raises HTTPException.
NextStage(stage, res) ==
    IF ~res.success THEN "done"
    ELSE IF stage = "load_data" THEN "perform_pca"
    ELSE IF stage = "perform_pca" THEN "perform_clustering"
    ELSE "done"

Call(h) ==
    LET request == Val(server.input[h]) IN
    /\ server.ref[h] = server.active
    /\ \/ /\ server.pc[h] = "load_data"
          /\ load_data(request.students, request.selected)
       \/ /\ server.pc[h] = "perform_pca"
          /\ perform_pca(None)
       \/ /\ server.pc[h] = "perform_clustering"
          /\ perform_clustering(request.n_clusters)
    /\ server' = [server EXCEPT !.pc[h] = NextStage(@, result'),
                                !.responses[h] = Append(@, result')]

ServerNext ==
    \E h \in Handlers :
        \/ \E request \in ServerRequests : Construct(h, request)
        \/ Switch(h)
        \/ Call(h)

ServerSpec == Init /\ [][ServerNext]_vars

\* ------------------------------------------------- loader specification
\* load_data as a function of its arguments: one call on a fresh instance.
\* ------------------------------------------------------- analysis endpoints
\* One request to one of the analysis endpoints. server.http holds the handler's
\* position (the stage it calls next), its request, its local n_clusters, the
\* stages it has called with their outcome, and the HTTP status it answers with.
DefaultMaxK == 10        \* find_optimal_clusters(max_k=10), ClusteringRequest.max_k
FallbackClusters == 3    \* n_clusters = 3  # Default fallback

EndpointStudents ==
    {[i \in 1..n |-> Record(i, CleanGrades(i))] : n \in {1, MaxRows, MaxRows + 1}}
    \cup {[i \in 1..MaxRows |-> Record(i, VariantGrades(MaxRows, "text", i))]}

EndpointLoads ==
    {[students |-> c, modules |-> <<"A", "B">>] : c \in EndpointStudents}
    \cup {[students |-> [i \in 1..MaxRows |-> Record(i, CleanGrades(i))], modules |-> <<"Z">>]}

\* A request with the defaults its schema gives the fields it does not carry.
Request(endpoint, load) ==
    [endpoint |-> endpoint, students |-> load.students, modules |-> load.modules,
     n_components |-> None, n_clusters |-> None, auto_detect_k |-> FALSE,
     max_k |-> DefaultMaxK, pc1 |-> 1, pc2 |-> 2]

EndpointRequests ==
    UNION {
      {[Request("/pca", l) EXCEPT !.n_components = n] : n \in {None, Some(1), Some(MaxComponents + 1)}}
      \cup {[Request("/elbow", l) EXCEPT !.max_k = m] : m \in {0, DefaultMaxK}}
      \cup {[Request("/clustering", l) EXCEPT !.n_clusters = k, !.auto_detect_k = a, !.max_k = m] :
               k \in {None, Some(2)}, a \in BOOLEAN, m \in {0, DefaultMaxK}}
      \cup {[Request("/biplot", l) EXCEPT !.n_clusters = Some(k), !.pc2 = pc] :
               k \in {2, FallbackClusters}, pc \in {2, MaxComponents + 1}}
      \cup {Request("/complete-analysis", l), Request("/export", l)}
      : l \in EndpointLoads}

\* The status a handler raises HTTPException with when a stage has failed.
FailureStatus_Always500(stage) == 500

FailureStatus(stage) == IF stage = "load_data" THEN 400 ELSE 500

\* /clustering does not raise on a failed find_optimal_clusters: it goes on
\* with the fallback count.
Swallowed(request, stage) ==
    request.endpoint = "/clustering" /\ stage = "find_optimal_clusters"

\* The stage a handler calls after a successful (or swallowed) stage; "done"
\* when it builds its response.
StageAfter(request, stage) ==
    LET endpoint == request.endpoint IN
    IF stage = "load_data" THEN "perform_pca"
    ELSE IF stage = "perform_pca"
    THEN (IF endpoint = "/pca" THEN "done"
          ELSE IF endpoint = "/biplot" THEN "perform_clustering"
          ELSE IF endpoint = "/clustering"
                  /\ ~(request.auto_detect_k \/ request.n_clusters = None)
          THEN "perform_clustering"
          ELSE "find_optimal_clusters")
    ELSE IF stage = "find_optimal_clusters"
    THEN (IF endpoint = "/elbow" THEN "done" ELSE "perform_clustering")
    ELSE IF stage = "perform_clustering"
    THEN (IF endpoint = "/clustering" THEN "done"
          ELSE IF endpoint = "/biplot" THEN "create_biplot"
          ELSE "export_analysis_results")
    ELSE "done"

\* The handler's local n_clusters after a stage.
ClustersAfter(request, stage, res, n_clusters) ==
    IF stage = "find_optimal_clusters"
    THEN (IF res.success THEN Some(res.optimal_k) ELSE Some(FallbackClusters))
    ELSE n_clusters

\* analyzer = DataAnalyzer() on a new request.
Receive(request) ==
    /\ server.http.pc = "new"
    /\ Address(FreshAnalyzer)
    /\ server' = [server EXCEPT
                     !.objects = Append(WrittenBack, FreshAnalyzer),
                     !.active = NewAnalyzer(server.objects),
                     !.http = [pc |-> "load_data", request |-> Some(request),
                               n_clusters |-> request.n_clusters,
                               stages |-> <<>>, status |-> None]]
    /\ UNCHANGED <<fits, call, result, hist>>

\* The handler calls its next stage and looks at the result.
Serve ==
    LET http == server.http
        request == Val(http.request)
        stage == http.pc
        failed == ~result'.success /\ ~Swallowed(request, stage)
        next == IF failed THEN "done" ELSE StageAfter(request, stage)
    IN  /\ \/ /\ stage = "load_data"
              /\ load_data(request.students, request.modules)
           \/ /\ stage = "perform_pca"
              /\ perform_pca(IF request.endpoint = "/pca" THEN request.n_components ELSE None)
           \/ /\ stage = "find_optimal_clusters"
              /\ find_optimal_clusters(IF request.endpoint \in {"/elbow", "/clustering"}
                                       THEN request.max_k ELSE DefaultMaxK)
           \/ /\ stage = "perform_clustering"
              /\ perform_clustering(Val(http.n_clusters))
           \/ /\ stage = "create_biplot"
              /\ create_biplot(request.pc1, request.pc2)
           \/ /\ stage = "export_analysis_results"
              /\ export_analysis_results
        /\ server' = [server EXCEPT
                         !.http = [pc |-> next,
                                   request |-> http.request,
                                   n_clusters |-> ClustersAfter(request, stage, result',
                                                                http.n_clusters),
                                   stages |-> Append(http.stages,
                                                     [call |-> call',
                                                      success |-> result'.success,
                                                      object |-> server.active]),
                                   status |-> IF failed THEN Some(FailureStatus(stage))
                                              ELSE IF next = "done" THEN Some(200)
                                              ELSE None]]

EndpointNext ==
    \/ \E request \in EndpointRequests : Receive(request)
    \/ Serve

EndpointSpec == Init /\ [][EndpointNext]_vars

LoaderNext ==
    /\ call.op = "init"
    /\ UNCHANGED server
    /\ \E students \in StudentLists, selected \in ModuleLists :
          load_data(students, selected)

LoaderSpec == Init /\ [][LoaderNext]_vars

\* ================================================================== claims

\* C1: perform_pca returns success only if an earlier load_data returned
\* success, and find_optimal_clusters / perform_clustering return success only
\* if an earlier perform_pca returned success; out of order they fail.
C1_StageOrder ==
    /\ (call.op = "perform_pca" /\ result.success) => hist.loaded
    /\ (call.op \in {"find_optimal_clusters", "perform_clustering"} /\ result.success)
          => hist.reduced

\* C2: create_biplot and export_analysis_results return success only if an
\* earlier perform_clustering on the instance returned success; a
\* perform_clustering that failed does not count.
C2_ReportNeedsClustering ==
    (call.op \in {"create_biplot", "export_analysis_results"} /\ result.success)
        => hist.clustered

\* C3: once load_data has succeeded again, the reduced matrix, loadings and
\* labels from before it are unusable: the four later stages fail until
\* perform_pca (and, for biplot/export, perform_clustering) has succeeded again.
C3_LoadInvalidates ==
    /\ (/\ hist.reduced /\ ~hist.reduced_since_load
        /\ call.op \in {"find_optimal_clusters", "perform_clustering",
                        "create_biplot", "export_analysis_results"})
          => ~result.success
    /\ (/\ hist.clustered /\ ~hist.clustered_since_load
        /\ call.op \in {"create_biplot", "export_analysis_results"})
          => ~result.success

\* C4: in every reachable state the stored artifacts are index-aligned: as many
\* identifiers as feature-matrix rows, and a stored reduced matrix or label
\* vector has that many rows, row i belonging to identifier i.
C4_IndexAligned ==
    /\ data # None => Len(Val(matricules)) = Len(Val(data))
    /\ pca_data # None => Val(pca_data).ids = Val(matricules)
    /\ cluster_labels # None => Len(Val(cluster_labels)) = Len(Val(matricules))

\* C5: every public operation returns a dictionary with a success flag, and a
\* failure dictionary holds the flag and the error message and nothing else.
C5_DiscriminatedResult ==
    call.op # "init" =>
        /\ "success" \in DOMAIN result
        /\ result.success \in BOOLEAN
        /\ ~result.success => DOMAIN result = {"success", "error"}

C5_Witness ==
    /\ call.op = "perform_clustering"
    /\ ~result.success
    /\ cluster_labels # None

\* C6: load_data fails exactly when no requested name occurs in the record
\* schema, or when some name resolves but no record has every resolved feature;
\* otherwise it succeeds with sample_count = number of surviving records, however
\* many records were excluded.
C6_LoadFailsInTwoCases ==
    call.op = "load_data" =>
        LET S == call.students
            schema == {m \in Names : \E i \in 1..Len(S) : m \in DOMAIN S[i].grades}
            resolved == Range(call.selected) \cap schema
            has(i, m) == m \in DOMAIN S[i].grades /\ S[i].grades[m] # Null
            surviving == {i \in 1..Len(S) : \A m \in resolved : has(i, m)}
        IN  /\ ~result.success <=> (resolved = {} \/ surviving = {})
            /\ (~result.success /\ resolved = {}) =>
                  result.error = "None of the selected modules are available in the data"
            /\ (~result.success /\ resolved # {}) =>
                  result.error = "No valid data after removing missing values"
            /\ result.success => result.sample_count = Cardinality(surviving)

C6_Witness ==
    /\ call.op = "load_data"
    /\ result.success
    /\ result.sample_count < Len(call.students)

\* C7: after a successful load_data the resolved feature list is the requested
\* names that are a key of some record's grade map, in request order: an
\* order-preserving sub-sequence of the request with no unrequested name.
C7_ResolvedSubsequence ==
    (call.op = "load_data" /\ result.success) =>
        LET S == call.students
            req == call.selected
            hit == {p \in 1..Len(req) : \E i \in 1..Len(S) : req[p] \in DOMAIN S[i].grades}
            got == result.available_modules
        IN  /\ Val(selected_modules) = got
            /\ Len(got) = Cardinality(hit)
            /\ \A q \in 1..Len(got) :
                  \E p \in hit : /\ got[q] = req[p]
                                 /\ Cardinality({h \in hit : h < p}) = q - 1

C7_Witness ==
    /\ call.op = "load_data"
    /\ result.success
    /\ result.available_modules = <<"B", "A">>

\* C8: after a successful load_data the feature matrix holds exactly the input
\* records whose every resolved feature is present and numeric-convertible, in
\* input order, and the identifier list is theirs in the same order.
C8_RowsArePresentAndNumeric ==
    (call.op = "load_data" /\ result.success) =>
        LET S == call.students
            avail == Val(selected_modules)
            good == {i \in 1..Len(S) :
                        \A j \in 1..Len(avail) :
                            /\ avail[j] \in DOMAIN S[i].grades
                            /\ S[i].grades[avail[j]] \in Numeric}
        IN  /\ Len(Val(data)) = Cardinality(good)
            /\ Len(Val(matricules)) = Cardinality(good)
            /\ \A i \in good :
                  LET r == Cardinality({h \in good : h <= i})
                  IN  /\ Val(matricules)[r] = S[i].matricule
                      /\ \A j \in 1..Len(avail) : Val(data)[r][j] = S[i].grades[avail[j]]

\* C9: perform_pca without a component count uses min(#resolved features,
\* #rows) components; on success n_components, the number of explained-variance
\* entries, the loading columns and the reduced matrix's columns are that
\* number, and the reduced matrix keeps the feature matrix's row count.
C9_DefaultComponentCount ==
    (call.op = "perform_pca" /\ call.n_components = None /\ data # None) =>
        LET bound == Min(Len(Val(selected_modules)), Len(Val(data))) IN
        /\ ~HasText(Val(data)) => Val(pca).n_components = bound
        /\ result.success =>
              /\ result.n_components = bound
              /\ Len(result.explained_variance) = bound
              /\ Len(result.cumulative_variance) = bound
              /\ result.loadings.cols = bound
              /\ result.pca_data_shape = <<Len(Val(data)), bound>>
              /\ Val(pca_data).cols = bound
              /\ Len(Val(explained_variance)) = bound
              /\ Val(loadings).cols = bound
              /\ Rows(Val(pca_data)) = Len(Val(data))

C9_Witness ==
    /\ call.op = "perform_pca"
    /\ call.n_components = None
    /\ result.success
    /\ Len(Val(data)) < Len(Val(selected_modules))
    /\ result.n_components = Len(Val(data))

\* C10: perform_pca with a component count above min(#resolved features,
\* #rows) does not fail: it clamps the count and returns success with
\* n_components equal to that bound.
C10_ClampsComponentCount ==
    (/\ call.op = "perform_pca"
     /\ call.n_components # None
     /\ data # None) =>
        LET bound == Min(Len(Val(selected_modules)), Len(Val(data))) IN
        (~HasText(Val(data)) /\ Val(call.n_components) > bound) =>
            /\ result.success
            /\ result.n_components = bound

\* C11: a successful find_optimal_clusters(max_k) has evaluated exactly the
\* candidates 1, 2, ..., min(max_k, n_rows - 1) in ascending order, and k_range,
\* inertias and silhouette_scores have one entry per candidate.
C11_CandidateRange ==
    (call.op = "find_optimal_clusters" /\ result.success) =>
        LET top == Min(call.max_k, Rows(Val(pca_data)) - 1) IN
        /\ Len(result.k_range) = top
        /\ \A i \in 1..top : result.k_range[i] = i
        /\ Len(result.inertias) = top
        /\ Len(result.silhouette_scores) = top

C11_Witness ==
    /\ call.op = "find_optimal_clusters"
    /\ result.success
    /\ call.max_k >= Rows(Val(pca_data))
    /\ Len(result.k_range) = Rows(Val(pca_data)) - 1
    /\ Len(result.k_range) >= 3

\* C12: with at least 3 candidates the recommended k is k_range[i + 2], i the
\* (0-based) position of the first maximum of the second difference
\* d2[j] = inertia[j+2] - 2*inertia[j+1] + inertia[j], when i + 2 is a valid index.
C12_ElbowAtMaxCurvature ==
    (call.op = "find_optimal_clusters" /\ result.success /\ Len(result.k_range) >= 3) =>
        LET y == result.inertias
            n == Len(y)
            d2(j) == y[j + 2] - 2 * y[j + 1] + y[j]       \* j in 1..n-2
            first == CHOOSE j \in 1..(n - 2) :
                        /\ \A h \in 1..(n - 2) : d2(h) <= d2(j)
                        /\ \A h \in 1..(j - 1) : d2(h) < d2(j)
        IN  first + 2 <= Len(result.k_range) =>
                result.optimal_k = result.k_range[first + 2]

C12_Witness ==
    /\ call.op = "find_optimal_clusters"
    /\ result.success
    /\ Len(result.inertias) = 4
    /\ result.inertias[3] - 2 * result.inertias[2] + result.inertias[1]
          = result.inertias[4] - 2 * result.inertias[3] + result.inertias[2]
    /\ result.optimal_k = 3

\* C13: with fewer than 3 candidates there is no second difference, so the
\* fallback rule applies and the recommended k is min(3, largest candidate).
C13_FallbackBelowThreeCandidates ==
    (/\ call.op = "find_optimal_clusters"
     /\ result.success
     /\ Len(result.k_range) < 3) =>
        result.optimal_k = Min(3, result.k_range[Len(result.k_range)])

\* C14: whenever find_optimal_clusters(max_k) succeeds, for any inertia curve,
\* optimal_k is one of the evaluated candidates and 1 <= optimal_k <= max_k.
C14_RecommendedWasEvaluated ==
    (call.op = "find_optimal_clusters" /\ result.success) =>
        /\ \E i \in 1..Len(result.k_range) : result.k_range[i] = result.optimal_k
        /\ 1 <= result.optimal_k
        /\ result.optimal_k <= call.max_k

C14_Witness ==
    /\ call.op = "find_optimal_clusters"
    /\ result.success
    /\ result.optimal_k = 4
    /\ call.max_k = 4

\* C15: in find_optimal_clusters the silhouette entry of candidate 1 is the
\* constant 0 and the metric is computed exactly for the candidates above 1.
C15_SilhouetteConvention ==
    (call.op = "find_optimal_clusters" /\ result.success) =>
        \A i \in 1..Len(result.k_range) :
            /\ result.k_range[i] = 1 => result.silhouette_scores[i] = "0"
            /\ result.k_range[i] > 1 => result.silhouette_scores[i] = "score"

C15_Witness ==
    /\ call.op = "find_optimal_clusters"
    /\ result.success
    /\ Len(result.k_range) >= 2
    /\ result.silhouette_scores[1] = "0"
    /\ result.silhouette_scores[2] = "score"

\* C16: with a reduced matrix of n_rows rows, perform_clustering(k) fails for
\* every k <= 1 and every k >= n_rows, and succeeds with n_clusters = k for
\* every 2 <= k <= n_rows - 1 when the rows are pairwise distinct.
C16_ValidClusterCounts ==
    (call.op = "perform_clustering" /\ pca_data # None) =>
        LET reduced == Val(pca_data)
            n_rows == Rows(reduced)
            k == call.n_clusters
        IN  /\ (k <= 1 \/ k >= n_rows) => ~result.success
            /\ (/\ 2 <= k /\ k <= n_rows - 1
                /\ reduced.cols > 0
                /\ Distinct(reduced) = n_rows) =>
                   (result.success /\ result.n_clusters = k)

\* C18: after a successful perform_clustering(k) every row has one label in
\* 0..k-1; cluster_assignments has one entry per row, in row order, pairing
\* identifier i with label i; cluster_statistics has exactly the entries
\* cluster_0 .. cluster_(k-1), whose sizes sum to the row count.
RECURSIVE C18_SumSizes(_, _)
C18_SumSizes(stats, c) == IF c < 0 THEN 0 ELSE stats[c].size + C18_SumSizes(stats, c - 1)

C18_LabelsPartitionRows ==
    (call.op = "perform_clustering" /\ result.success) =>
        LET k == call.n_clusters
            labels == Val(cluster_labels)
            n_rows == Rows(Val(pca_data))
        IN  /\ Len(labels) = n_rows
            /\ \A i \in 1..n_rows : labels[i] \in 0..(k - 1)
            /\ Len(result.cluster_assignments) = n_rows
            /\ \A i \in 1..n_rows :
                  /\ result.cluster_assignments[i].matricule = Val(matricules)[i]
                  /\ result.cluster_assignments[i].cluster = labels[i]
            /\ DOMAIN result.cluster_statistics = 0..(k - 1)
            /\ C18_SumSizes(result.cluster_statistics, k - 1) = n_rows

C18_Witness ==
    /\ call.op = "perform_clustering"
    /\ result.success
    /\ Rows(Val(pca_data)) = 3
    /\ Val(cluster_labels)[1] # Val(cluster_labels)[3]

\* C19: create_biplot(pc1, pc2) called after PCA with n components and after
\* clustering fails, returning no figure, whenever pc1 > n or pc2 > n, and the
\* call leaves the stored artifacts unchanged.
C19_ComponentIndexOutOfRange ==
    [][(/\ call'.op = "create_biplot"
        /\ pca_data # None /\ cluster_labels # None
        /\ (call'.pc1 > Val(pca_data).cols \/ call'.pc2 > Val(pca_data).cols)) =>
            /\ ~result'.success
            /\ "biplot" \notin DOMAIN result'
            /\ fields' = fields]_vars

C19_Witness ==
    /\ call.op = "create_biplot"
    /\ hist.reduced /\ hist.clustered
    /\ call.pc1 <= Val(pca_data).cols
    /\ call.pc2 = Val(pca_data).cols + 1
    /\ ~result.success

\* C17: clustering is deterministic: any two KMeans fits of the same reduced
\* matrix with the same k, made by find_optimal_clusters or by
\* perform_clustering, have the same inertia and (where both were read) the
\* same labels; the assignments perform_clustering returns and the inertias
\* find_optimal_clusters returns are those of such fits.
C17_SeededClusteringIsDeterministic ==
    /\ \A f, g \in fits :
          (f.key.n_clusters = g.key.n_clusters /\ f.key.X = g.key.X) =>
              /\ f.inertia = g.inertia
              /\ (f.labels # None /\ g.labels # None) => f.labels = g.labels
    /\ (call.op = "perform_clustering" /\ result.success) =>
          \E f \in fits :
              /\ f.site = "perform_clustering"
              /\ f.key.n_clusters = call.n_clusters
              /\ f.key.X = Val(pca_data)
              /\ \A i \in 1..Len(result.cluster_assignments) :
                    result.cluster_assignments[i].cluster = Val(f.labels)[i]
    /\ (call.op = "find_optimal_clusters" /\ result.success) =>
          \A i \in 1..Len(result.k_range) :
              \E f \in fits :
                  /\ f.site = "find_optimal_clusters"
                  /\ f.key.n_clusters = result.k_range[i]
                  /\ f.key.X = Val(pca_data)
                  /\ f.inertia = result.inertias[i]

C17_Witness ==
    /\ call.op = "perform_clustering"
    /\ result.success
    /\ \E f, g \in fits :
          /\ f.site = "find_optimal_clusters"
          /\ g.site = "perform_clustering"
          /\ f.key.n_clusters = call.n_clusters
          /\ g.key.n_clusters = call.n_clusters
          /\ f.key.X = Val(pca_data)
          /\ g.key.X = Val(pca_data)

\* C20: concurrent analysis requests never share pipeline state: every handler
\* holds an analyzer of its own, and for any interleaving of two requests each
\* response of a request is the response the same request produced running alone.
C20_RequestsAreIsolated ==
    /\ \A h, g \in Handlers :
          (h # g /\ server.ref[h] # 0) => server.ref[h] # server.ref[g]
    /\ Len(server.responses["first"]) <= Len(server.responses["alone"])
    /\ \A i \in 1..Len(server.responses["first"]) :
          server.responses["first"][i] = server.responses["alone"][i]
    /\ server.pc["first"] = "done" =>
          Len(server.responses["first"]) = Len(server.responses["alone"])

C20_Witness ==
    /\ server.pc["first"] = "done"
    /\ Len(server.responses["first"]) = 3
    /\ server.responses["first"][3].success
    /\ server.pc["second"] = "perform_clustering"
    /\ server.input["second"] # server.input["first"]


\* The variance part of a successful perform_pca result or export bundle.
C21_Variances ==
    IF call.op = "perform_pca" THEN result ELSE result.results.pca_results

C21_Reported ==
    /\ call.op \in {"perform_pca", "export_analysis_results"}
    /\ result.success

RECURSIVE C21_SumTo(_, _)
C21_SumTo(seq, i) ==
    IF i = 1 THEN seq[1] ELSE FloatAdd(C21_SumTo(seq, i - 1), seq[i])

C21_RunningSum(ratios, cumulative) ==
    /\ \A i \in 1..Len(ratios) : FloatEq(cumulative[i], C21_SumTo(ratios, i))
    /\ \A i \in 1..(Len(cumulative) - 1) : FloatLeq(cumulative[i], cumulative[i + 1])

\* C21 as stated: in every successful perform_pca result and in every export
\* bundle, cumulative_variance has the length of explained_variance, entry i
\* equals the sum of explained_variance[0..i], and the sequence never decreases.
C21_CumulativeIsRunningSum ==
    C21_Reported =>
        /\ Len(C21_Variances.cumulative_variance) = Len(C21_Variances.explained_variance)
        /\ C21_RunningSum(C21_Variances.explained_variance,
                          C21_Variances.cumulative_variance)

\* C21 amended: the lengths always agree; when the ratios are numbers the
\* cumulative sequence is their running sum and never decreases; otherwise
\* every ratio is NaN and so is every cumulative entry, which is what
\* perform_pca reports when the loaded rows are all equal (a single row included).
C21_CumulativeOfNumericRatios ==
    C21_Reported =>
        LET ratios == C21_Variances.explained_variance
            cumulative == C21_Variances.cumulative_variance
            numeric == \A i \in 1..Len(ratios) : ~IsNaN(ratios[i])
        IN  /\ Len(cumulative) = Len(ratios)
            /\ IF numeric
               THEN C21_RunningSum(ratios, cumulative)
               ELSE \A i \in 1..Len(ratios) : IsNaN(ratios[i]) /\ IsNaN(cumulative[i])
            /\ call.op = "perform_pca" =>
                  (numeric <=> (Len(ratios) = 0 \/ Cardinality(Range(Val(data))) > 1))

C21_Witness ==
    /\ call.op = "export_analysis_results"
    /\ result.success
    /\ Len(C21_Variances.explained_variance) = 2
    /\ FloatLeq(Float(1), C21_Variances.explained_variance[2])
    /\ FloatEq(C21_Variances.cumulative_variance[2], Float(VarianceUnits))


\* C22: find_optimal_clusters changes no stored pipeline artifact, whether it
\* succeeds or fails: every attribute of the instance has the value it had
\* before the call, so a later perform_clustering, create_biplot or export reads
\* the same state as if the call had not been made.
C22_SelectorChangesNothing ==
    [][call'.op = "find_optimal_clusters" => fields' = fields]_vars

C22_Witness ==
    /\ call.op = "find_optimal_clusters"
    /\ result.success
    /\ kmeans # None
    /\ cluster_labels # None
    /\ Val(kmeans).n_clusters \notin Range(result.k_range)


\* C23: find_optimal_clusters returns no recommendation when the candidate
\* range is empty, that is when max_k < 1 or the reduced matrix has a single
\* row: it returns a failure result.
C23_EmptyRangeFails ==
    (/\ call.op = "find_optimal_clusters"
     /\ pca_data # None
     /\ (call.max_k < 1 \/ Rows(Val(pca_data)) <= 1)) => ~result.success

C23_Witness ==
    /\ call.op = "find_optimal_clusters"
    /\ pca_data # None
    /\ call.max_k >= 1
    /\ Rows(Val(pca_data)) = 1
    /\ result = Failure("optimal_k is not in list")


\* C24: an operation that returns a failure result leaves the state of the
\* instance exactly as it was before the call: after a failed load_data,
\* perform_pca, perform_clustering, create_biplot or export_analysis_results no
\* attribute differs from its value before the call.
C24_FailureLeavesStateUnchanged ==
    [][(/\ call'.op \in {"load_data", "perform_pca", "perform_clustering",
                         "create_biplot", "export_analysis_results"}
        /\ ~result'.success) => fields' = fields]_vars


\* C25: the stored cluster labels belong to the currently stored reduced
\* matrix: whenever create_biplot or export_analysis_results returns success,
\* the labels it uses were computed by perform_clustering on exactly the
\* reduced matrix, loadings and feature list stored at that moment, also when
\* perform_pca was called again after the clustering.
C25_LabelsBelongToStoredMatrix ==
    (/\ call.op \in {"create_biplot", "export_analysis_results"}
     /\ result.success) => hist.labelled = Some(LabelledOn)


\* C26: the count recommended by find_optimal_clusters is accepted by
\* perform_clustering: when find_optimal_clusters has returned success with
\* optimal_k and the rows of the reduced matrix are pairwise distinct,
\* perform_clustering(optimal_k) on that matrix returns success.
C26_RecommendedCountIsAccepted ==
    [][(/\ call.op = "find_optimal_clusters"
        /\ result.success
        /\ Distinct(Val(pca_data)) = Rows(Val(pca_data))
        /\ call'.op = "perform_clustering"
        /\ call'.n_clusters = result.optimal_k) => result'.success]_vars


\* C27: for every inertia sequence of at least 3 entries (with a k_range of
\* the same length) _find_elbow_point returns from the maximum-second-difference
\* rule: argmax + 2 is inside k_range, the 70% walk and the final default are
\* never the source of the result, and the recommended k is at least
\* k_range[2] = 3.
C27_LongCurveUsesCurvature ==
    (/\ call.op = "find_optimal_clusters"
     /\ result.success
     /\ Len(result.inertias) >= 3) =>
        /\ Len(result.k_range) = Len(result.inertias)
        /\ ElbowRule(result.k_range, result.inertias) = "curvature"
        /\ ElbowIndex(Diff(Diff(result.inertias))) < Len(result.k_range)
        /\ result.optimal_k >= At(result.k_range, 2)
        /\ result.optimal_k >= 3

C27_Witness ==
    /\ call.op = "find_optimal_clusters"
    /\ result.success
    /\ Len(result.inertias) = 4
    /\ result.optimal_k = 4


\* C28: create_biplot treats component indices as 1-based on the lower side
\* too: it returns success only if 1 <= pc1 <= n and 1 <= pc2 <= n, n being the
\* number of computed components, and then the plotted coordinates, the loading
\* vectors and the reported explained variances are those of components pc1
\* and pc2; an index of 0 or a negative index yields a failure result.
C28_ComponentIndicesAreOneBased ==
    (call.op = "create_biplot" /\ result.success) =>
        /\ 1 <= call.pc1 /\ call.pc1 <= Val(pca_data).cols
        /\ 1 <= call.pc2 /\ call.pc2 <= Val(pca_data).cols
        /\ result.biplot.x = call.pc1 - 1
        /\ result.biplot.y = call.pc2 - 1
        /\ \A i \in 1..Len(result.biplot.vectors) :
              /\ result.biplot.vectors[i].x = call.pc1 - 1
              /\ result.biplot.vectors[i].y = call.pc2 - 1
        /\ result.explained_variance_pc1 = Val(explained_variance)[call.pc1]
        /\ result.explained_variance_pc2 = Val(explained_variance)[call.pc2]


\* C29: after a successful perform_clustering(k), create_biplot with valid
\* component indices returns success for every k that perform_clustering
\* accepts, and the figure has one scatter group per cluster in which every
\* row appears exactly once under its own identifier.
C29_BiplotForEveryClusterCount ==
    [][(/\ call.op = "perform_clustering"
        /\ result.success
        /\ call'.op = "create_biplot"
        /\ call'.pc1 \in 1..Val(pca_data).cols
        /\ call'.pc2 \in 1..Val(pca_data).cols) =>
           /\ result'.success
           /\ DOMAIN result'.biplot.groups = 0..(call.n_clusters - 1)
           /\ \A i \in 1..Len(Val(cluster_labels)) :
                 \A c \in DOMAIN result'.biplot.groups :
                    Cardinality({j \in 1..Len(result'.biplot.groups[c]) :
                                    result'.biplot.groups[c][j] = Val(matricules)[i]})
                      = IF Val(cluster_labels)[i] = c THEN 1 ELSE 0]_vars


C30_StageRank(op) ==
    IF op = "load_data" THEN 1
    ELSE IF op = "perform_pca" THEN 2
    ELSE IF op = "find_optimal_clusters" THEN 3
    ELSE IF op = "perform_clustering" THEN 4
    ELSE 5

\* The stages are called on one instance in the pipeline order; a success
\* response needs every called stage to have succeeded; a failed load_data is
\* answered with 400, any other failed stage with 500, and no stage follows a
\* failed one. With excuse, a failed find_optimal_clusters of /clustering is
\* set apart: it is followed by perform_clustering with the fallback count.
C30_Statement(excuse) ==
    LET http == server.http
        st == http.stages
        excused(i) == /\ excuse
                      /\ Val(http.request).endpoint = "/clustering"
                      /\ st[i].call.op = "find_optimal_clusters"
    IN  /\ \A i \in 1..Len(st) : st[i].object = server.active
        /\ Len(st) >= 1 => st[1].call.op = "load_data"
        /\ Len(st) >= 2 => st[2].call.op = "perform_pca"
        /\ \A i, j \in 1..Len(st) :
              i < j => C30_StageRank(st[i].call.op) < C30_StageRank(st[j].call.op)
        /\ http.status = Some(200) => \A i \in 1..Len(st) : st[i].success \/ excused(i)
        /\ \A i \in 1..Len(st) :
              ~st[i].success =>
                  IF excused(i)
                  THEN \/ /\ i = Len(st)
                          /\ http.pc = "perform_clustering"
                          /\ http.n_clusters = Some(FallbackClusters)
                       \/ /\ i < Len(st)
                          /\ st[i + 1].call = [op |-> "perform_clustering",
                                               n_clusters |-> FallbackClusters]
                  ELSE /\ i = Len(st)
                       /\ http.pc = "done"
                       /\ http.status =
                             Some(IF st[i].call.op = "load_data" THEN 400 ELSE 500)

\* C30 as stated: in every analysis endpoint the stages are invoked on one
\* instance in the order load_data, perform_pca, find_optimal_clusters /
\* perform_clustering, create_biplot / export_analysis_results; a success
\* response is produced only if every invoked stage returned success; a
\* load_data failure is answered with HTTP 400 and any other stage failure
\* with HTTP 500, after which no further stage is invoked.
C30_EndpointsStopAtFirstFailure == C30_Statement(FALSE)

\* C30 amended: the same, except that /clustering does not answer a failed
\* find_optimal_clusters: it goes on to perform_clustering with n_clusters = 3
\* and answers according to that stage.
C30_EndpointsStopAtUnexcusedFailure == C30_Statement(TRUE)

C30_Witness ==
    /\ server.http.status = Some(200)
    /\ Val(server.http.request).endpoint = "/clustering"
    /\ \E i \in 1..Len(server.http.stages) : ~server.http.stages[i].success

====
